---- MODULE Spec2Model ----
(***************************************************************************)
(* The e-mail extraction pipeline of docs/EMAIL_ANALYSIS_SYSTEM_PLAN.md:   *)
(* SmartEmailProcessor.process_email (classification, strategy selection,  *)
(* one of four extraction tiers, validation and learning), the secure      *)
(* template manager with the LLM client's selector sanitisation, and the   *)
(* template store.  Confidences are percentages (0.8 is 80), costs are     *)
(* hundredths of a dollar (0.05 is 5).                                     *)
(***************************************************************************)
EXTENDS Naturals, Sequences, FiniteSets, TLC

\* Number of e-mails the worker processes in one run of the model.
MaxMessages == 2

\* Number of DELETE requests on the template API in one run of the model.
MaxDeletes == 1

\* Users who submit corrections, and corrections submitted in one run.
MaxUsers == 3

MaxCorrections == 4

\* makeAuthenticatedRequest calls in flight in one run of the model.
MaxCalls == 2

\* The server issues at most this many token pairs.
MaxTokens == 3

\* Workers that reinforce the same template, and reinforcements in one run.
MaxWorkers == 3

MaxReinforcements == 4

\* Templates in the store the workers reinforce.
MaxTemplates == 1

\* -------------------------------------------------------------- constants
Tier1Confidence == 95
TemplateReuseThreshold == 80
ValidationScoreThreshold == 70
HtmlConfidenceThreshold == 80
ReviewThreshold == 80
ReinforceThreshold == 90
Tier3Cost == 1
Tier4Cost == 5
ConsensusThreshold == 3
\* Tier 1 needs a template confidence of at least 0.8 (spec 4.3).
Tier1TemplateConfidence == 80
\* Successful uses after which a template is promoted (spec 4.4 step 5a,
\* "a minimum number of independent messages"; configurable, spec 6).
PromotionThreshold == 2

\* The confidences an extractor, a scorer or a validation can report: below
\* every threshold, exactly 0.8, exactly 0.9, and above every threshold.
ConfLevels == {0, 80, 90, 95}

\* ------------------------------------------------------ selector strings
\* A selector is a sequence of lexical pieces; the pieces "<", ">", "("
\* and ")" are single characters.
Tokens == {"td", "script", "javascript:", "eval", "<", ">", "(", ")"}

\* re.sub(r'[<>(){}[\];]', '', selector)
DangerousChars == {"<", ">", "(", ")", "{", "}", "[", "]", ";"}

IsSafeChar(tok) == tok \notin DangerousChars

StripDangerous(selector) == SelectSeq(selector, IsSafeChar)

is_valid_css_selector(selector) == selector # <<>>

allowed_output_keys == {"amount_selector", "merchant_selector", "date_selector"}

\* The keys the prompt asks the model for that the model below carries: one
\* that is an allowed output key and one that is not.
ConfigKeys == {"amount_selector", "reference_selector"}

EmptyConfig == [k \in {} |-> <<>>]

sanitize_css_selectors(config) ==
    LET kept == {k \in DOMAIN config :
                    /\ k \in allowed_output_keys
                    /\ is_valid_css_selector(StripDangerous(config[k]))}
    IN  [k \in kept |-> StripDangerous(config[k])]

\* re.search(pattern, selector, re.IGNORECASE) for the five patterns
\* javascript:  data:  <script  eval\(  expression\(
MatchesDangerousPattern(selector) ==
    \E i \in 1..Len(selector) :
        \/ selector[i] \in {"javascript:", "data:"}
        \/ /\ i < Len(selector)
           /\ \/ selector[i] = "<" /\ selector[i + 1] = "script"
              \/ selector[i] \in {"eval", "expression"} /\ selector[i + 1] = "("

validate_css_selectors(config) ==
    \A k \in DOMAIN config : ~MatchesDangerousPattern(config[k])

\* What the language model may answer to llm_generate_parsing_config: a
\* harmless selector, a selector with a script tag, and a selector with a
\* javascript: scheme beside a key outside allowed_output_keys.
ProposedConfigs ==
    { [k \in {"amount_selector"} |-> <<"td">>],
      [k \in {"amount_selector"} |-> <<"td", "<", "script", ">">>],
      [k \in ConfigKeys |->
          IF k = "amount_selector" THEN <<"javascript:", "td">>
          ELSE <<"eval", "(", ")">>] }

\* ------------------------------------------------------------------ state
VARIABLES
    phase,            \* where process_email stands for the current e-mail
    messages,         \* e-mails received so far; the current one is the last
    classification,   \* EmailClassification of the current e-mail
    strategy,         \* tier chosen by select_processing_strategy, 0 = none
    ran,              \* the tiers whose extract has run in this attempt, in order
    parsing,          \* the model's proposal and the configuration made of it
    template_in_use,  \* index of the template the tier works with, 0 = none
    result,           \* what strategy.extract returned
    validations,      \* confidences of the three validations
    final_result,     \* what validate_and_learn returned
    templates,        \* the template store (SecureHTMLTemplate rows)
    template_review,  \* templates queued for the human security review
    review_queue,     \* e-mails whose result is queued for human review
    email_id,         \* provider message id of the current e-mail, 0 = none
    ledger,           \* transaction records created from finalized results
    deleted,          \* ids of the templates removed from the store
    \* AutoCategorizationEngine
    corrections,      \* the UserCategoryCorrection rows, oldest first
    merchant_patterns, \* category of the global pattern of the merchant
    \* frontend: useAuth and ProtectedRoute
    storage,          \* localStorage: afp_access_token, afp_refresh_token, afp_user
    issued,           \* number of token pairs the server has issued
    valid_refresh,    \* the refresh tokens the server still accepts
    calls,            \* the makeAuthenticatedRequest calls, one per caller
    build,            \* which of the two ProtectedRoute sources is built
    route,            \* the ProtectedRoute mounted for /app
    authState,        \* useAuth: user, isAuthenticated, isLoading, error
    location,         \* the path the router shows
    check,            \* useAuth: the checkAuth of the mount effect
    signout,          \* useAuth: the logout the user asked for
    callback,         \* the page of /auth/callback
    loader,           \* Dashboard: loadEmails and emailsLoading
    \* template counters under concurrent workers
    workers,          \* each worker's place and the row it has read
    reinforcements,   \* reinforcement events so far
    finalized         \* the ExtractionResults the workers have returned

pipeline_vars ==
    <<phase, messages, classification, strategy, ran, parsing,
      template_in_use, result, validations, final_result, templates,
      template_review, review_queue, email_id, ledger, deleted>>

learning_vars == <<corrections, merchant_patterns>>

\* localStorage, the server's tokens, the requests and the route guard.
auth_vars == <<storage, issued, valid_refresh, calls, build, route>>

\* The state of one useAuth hook, the router and the callback page.
hook_vars == <<authState, location, check, signout, callback>>

frontend_vars == <<auth_vars, hook_vars, loader>>

counter_vars == <<workers, reinforcements, finalized>>

\* What the e-mail pipeline does not touch.
outside_pipeline == <<learning_vars, frontend_vars, counter_vars>>

\* What the requests and the route guard do not touch.
outside_auth == <<pipeline_vars, learning_vars, counter_vars, hook_vars, loader>>

\* What the hook and the callback page do not touch.
outside_hook ==
    <<pipeline_vars, learning_vars, counter_vars, loader, build, route>>

vars == <<pipeline_vars, learning_vars, frontend_vars, counter_vars>>

attempt_vars == <<classification, strategy, ran, parsing, template_in_use,
                  result, validations, final_result>>

store_vars == <<templates, template_review, deleted>>

outcome_vars == <<review_queue, ledger>>

inbox_vars == <<messages, email_id>>

NoClassification ==
    [bank_known |-> FALSE, template_confidence |-> 0, transaction_likely |-> FALSE]

NoParsing == [proposal |-> EmptyConfig, config |-> EmptyConfig]

NoResult ==
    [tier |-> 0, confidence |-> 0, cost |-> 0, template_used |-> 0,
     needs_review |-> FALSE, queue_for_template_generation |-> FALSE]

\* The ids of the rows in the store; an id is never given twice.
TemplateIds == (1..Len(templates)) \ deleted

\* A new SecureHTMLTemplate row with the model's defaults.
NewTemplateValidated(config, proposal, provenance) ==
    [config |-> config, proposal |-> proposal, provenance |-> provenance,
     security_validated |-> TRUE, human_reviewed |-> FALSE,
     success_count |-> 0, failure_count |-> 0, confidence_score |-> 0]

SecureHTMLTemplate(config, proposal, provenance) ==
    [config |-> config, proposal |-> proposal, provenance |-> provenance,
     security_validated |-> FALSE, human_reviewed |-> FALSE,
     success_count |-> 0, failure_count |-> 0, confidence_score |-> 0]

\* No correction has been submitted and the merchant has no global pattern.
LearningInit ==
    /\ corrections = <<>>
    /\ merchant_patterns = "none"

PipelineInit ==
    /\ phase = "idle"
    /\ messages = 0
    /\ classification = NoClassification
    /\ strategy = 0
    /\ ran = <<>>
    /\ parsing = NoParsing
    /\ template_in_use = 0
    /\ result = NoResult
    /\ validations = <<>>
    /\ final_result = NoResult
    /\ templates = <<>>
    /\ template_review = {}
    /\ review_queue = {}
    /\ email_id = 0
    /\ ledger = {}
    /\ deleted = {}

\* ------------------------------------------------------------ frontend
\* A token is a number, 0 is the absent item (null); the pair of the login
\* is 1 and every refresh the server accepts issues the next pair.
NoTokens == [access |-> 0, refresh |-> 0, user |-> FALSE]

\* storeTokens that forgets the user.
storeTokensWithoutUser(access, refresh, user) ==
    [access |-> access, refresh |-> refresh, user |-> FALSE]

\* storeTokens: the three items are written together.
storeTokens(access, refresh, user) ==
    [access |-> access, refresh |-> refresh, user |-> user]

\* clearAuth: the three items are removed.
clearAuth == NoTokens

\* storeTokens as loginWithTokens calls it.
CallbackStored == [access |-> 1, refresh |-> 1, user |-> TRUE]

\* What LoginPage stores: the access token and the user, no refresh token.
LoginPageStored == [access |-> 1, refresh |-> 0, user |-> TRUE]

Callers == 1..MaxCalls

\* The slots of the calls the hook and the pages make themselves.
CheckAuthCall == MaxCalls + 1

LogoutCall == MaxCalls + 2

IntervalCall == MaxCalls + 3

LoaderCall == MaxCalls + 4

CallSlots == 1..LoaderCall

NoCall ==
    [pc |-> "idle", sent |-> 0, first |-> 0, refreshes |-> 0,
     refresh_ok |-> "none", refresh_sent |-> 0, consumed |-> FALSE,
     data |-> 0, requests |-> 0, retry |-> 0,
     second |-> 0, response |-> 0, error |-> "none"]

Unmounted ==
    [pc |-> "unmounted", authState |-> "loading", token |-> 0, verified |-> FALSE]

\* Nobody is logged in and nothing of the frontend runs.
AuthIdle ==
    /\ storage = NoTokens
    /\ issued = 1
    /\ valid_refresh = {1}
    /\ calls = [c \in CallSlots |-> NoCall]
    /\ build = "guard"
    /\ route = Unmounted

\* useState of useAuth.
InitialAuthState ==
    [user |-> FALSE, isAuthenticated |-> FALSE, isLoading |-> TRUE,
     error |-> "none"]

\* What clearAuth is followed by: nobody is signed in.
SignedOut(error) ==
    [user |-> FALSE, isAuthenticated |-> FALSE, isLoading |-> FALSE,
     error |-> error]

\* What checkAuth and loginWithTokens set for a user.
SignedIn ==
    [user |-> TRUE, isAuthenticated |-> TRUE, isLoading |-> FALSE,
     error |-> "none"]

\* The query parameters of the redirect to /auth/callback.
AllParams == {"access_token", "refresh_token", "email", "username", "user_id"}

CallbackUrls ==
    { AllParams,
      AllParams \ {"user_id"},
      AllParams \ {"email", "username"},
      AllParams \ {"refresh_token"},
      AllParams \cup {"error"},
      {"error"} }

NoCallback ==
    [page |-> "AuthCallback", pc |-> "unmounted", status |-> "processing",
     url |-> {}, timer |-> "none"]

\* The hook is not mounted, the page of /auth/callback is not open.
HookIdle ==
    /\ authState = InitialAuthState
    /\ location = "/"
    /\ check = [pc |-> "idle", overtaken |-> FALSE]
    /\ signout = [pc |-> "idle"]
    /\ callback = NoCallback

LoaderIdle == loader = [pc |-> "idle", emailsLoading |-> FALSE]

WorkerIds == 1..MaxWorkers

IdleWorker ==
    [pc |-> "idle", template |-> 0,
     row |-> SecureHTMLTemplate(EmptyConfig, EmptyConfig, "none")]

CountersIdle ==
    /\ workers = [w \in WorkerIds |-> IdleWorker]
    /\ reinforcements = 0
    /\ finalized = <<>>

Init ==
    /\ PipelineInit
    /\ LearningInit
    /\ AuthIdle
    /\ HookIdle
    /\ LoaderIdle
    /\ CountersIdle

\* ------------------------------------------------------- process_email
\* The worker pulls one e-mail at a time and starts process_email on it.
StartAttempt(id) ==
    /\ phase \in {"idle", "done", "raised"}
    /\ messages < MaxMessages
    /\ messages' = messages + 1
    /\ email_id' = id
    /\ phase' = "classify"
    /\ classification' = NoClassification
    /\ strategy' = 0
    /\ ran' = <<>>
    /\ parsing' = NoParsing
    /\ template_in_use' = 0
    /\ result' = NoResult
    /\ validations' = <<>>
    /\ final_result' = NoResult
    /\ UNCHANGED <<store_vars, outcome_vars>>
    /\ UNCHANGED outside_pipeline

\* An e-mail that has not been delivered before.
ReceiveEmail == StartAttempt(messages + 1)

\* Polling delivers an e-mail that was delivered before.
RedeliverEmail == \E id \in 1..messages : StartAttempt(id)

\* Phase 1: classify_email.  The e-mails told apart: a known bank whose
\* templates match well or badly, and an unknown sender whose e-mail is or is
\* not likely to be a transaction.
Classifications ==
    { [bank_known |-> TRUE, template_confidence |-> 95, transaction_likely |-> TRUE],
      [bank_known |-> TRUE, template_confidence |-> 0, transaction_likely |-> TRUE],
      [bank_known |-> FALSE, template_confidence |-> 0, transaction_likely |-> TRUE],
      [bank_known |-> FALSE, template_confidence |-> 0, transaction_likely |-> FALSE] }

classify_email ==
    /\ phase = "classify"
    /\ \E c \in Classifications : classification' = c
    /\ phase' = "select"
    /\ UNCHANGED <<inbox_vars, strategy, ran, parsing, template_in_use, result,
                   validations, final_result, store_vars, outcome_vars>>
    /\ UNCHANGED outside_pipeline

\* The templates of the e-mail's bank that Tier 1 may apply.
get_any_template(c) == IF c.bank_known THEN TemplateIds ELSE {}

get_proven_template(c) ==
    IF c.bank_known
    THEN {t \in TemplateIds : templates[t].security_validated}
    ELSE {}

\* Phase 2: the tier of the table "Multi-Tier Processing Strategies".
select_without_discovery(c) ==
    IF c.bank_known /\ get_proven_template(c) # {}
          /\ c.template_confidence >= Tier1TemplateConfidence
    THEN 1
    ELSE IF c.bank_known THEN 2
    ELSE IF c.transaction_likely THEN 3
    ELSE 0

select_processing_strategy(c) ==
    IF c.bank_known /\ get_proven_template(c) # {}
          /\ c.template_confidence >= Tier1TemplateConfidence
    THEN 1
    ELSE IF c.bank_known THEN 2
    ELSE IF c.transaction_likely THEN 3
    ELSE 4

SelectStrategy ==
    /\ phase = "select"
    /\ strategy' = select_processing_strategy(classification)
    /\ phase' = "extract"
    /\ UNCHANGED <<inbox_vars, classification, ran, parsing, template_in_use,
                   result, validations, final_result, store_vars, outcome_vars>>
    /\ UNCHANGED outside_pipeline

\* Phase 3 hands the tier's result to phase 4.
AfterExtractReselect(res) ==
    IF res.confidence > HtmlConfidenceThreshold THEN "validate" ELSE "select"

AfterExtract(res) == "validate"

\* Tier 1: get_proven_template, then confidence 0.95 and cost 0.
\* RegexExtractor has no template to work with when the row has been
\* removed since the selection.
Tier1Extract ==
    /\ phase = "extract"
    /\ strategy = 1
    /\ \/ \E t \in get_proven_template(classification) :
             /\ template_in_use' = t
             /\ result' = [NoResult EXCEPT !.tier = 1,
                                           !.confidence = Tier1Confidence,
                                           !.cost = 0,
                                           !.template_used = t]
             /\ phase' = AfterExtract(result')
       \/ /\ get_proven_template(classification) = {}
          /\ UNCHANGED <<template_in_use, result>>
          /\ phase' = "raised"
    /\ ran' = Append(ran, 1)
    /\ UNCHANGED <<inbox_vars, classification, strategy, parsing, validations,
                   final_result, store_vars, outcome_vars>>
    /\ UNCHANGED outside_pipeline

\* ---------------------------------------------------------------- Tier 2
\* Tier2SecureHybridStrategy.extract, step 1 (get_or_generate_html_config),
\* done by SecureTemplateManager.find_or_create_template: an existing
\* template that scores above 0.8 for this e-mail is returned, otherwise a
\* new one is generated.
find_or_create_template ==
    /\ phase = "extract"
    /\ strategy = 2
    /\ ran' = Append(ran, 2)
    /\ \/ \E best \in TemplateIds, confidence \in ConfLevels :
             /\ confidence > TemplateReuseThreshold
             /\ template_in_use' = best
             /\ parsing' = [proposal |-> EmptyConfig,
                            config |-> templates[best].config]
             /\ phase' = "html_extract"
       \/ /\ \/ TemplateIds = {}
             \/ \E confidence \in ConfLevels :
                   confidence <= TemplateReuseThreshold
          /\ UNCHANGED <<template_in_use, parsing>>
          /\ phase' = "generate"
    /\ UNCHANGED <<inbox_vars, classification, strategy, result, validations,
                   final_result, store_vars, outcome_vars>>
    /\ UNCHANGED outside_pipeline

\* generate_secure_template, first statement: llm_generate_parsing_config
\* through SecureLLMClient.structured_json_response, whose last step
\* sanitises the selectors of the answer.
structured_json_response ==
    /\ phase = "generate"
    /\ \E proposal \in ProposedConfigs :
          parsing' = [proposal |-> proposal,
                      config |-> sanitize_css_selectors(proposal)]
    /\ phase' = "validate_parser"
    /\ UNCHANGED <<inbox_vars, classification, strategy, ran, template_in_use,
                   result, validations, final_result, store_vars, outcome_vars>>
    /\ UNCHANGED outside_pipeline

\* chat_completion fails (time-out, rate limit): nothing on the way up to
\* process_email catches the exception.
ChatCompletionFails ==
    /\ phase = "generate"
    /\ phase' = "raised"
    /\ UNCHANGED <<inbox_vars, attempt_vars, store_vars, outcome_vars>>
    /\ UNCHANGED outside_pipeline

\* generate_secure_template, the rest: validate_parser_safely gives a score;
\* above 0.7 the template is created and queued for the security review,
\* otherwise a regex-only template is created.
generate_secure_template ==
    /\ phase = "validate_parser"
    /\ \E validation_score \in ConfLevels :
          IF validation_score > ValidationScoreThreshold
          THEN /\ templates' = Append(templates,
                     SecureHTMLTemplate(parsing.config, parsing.proposal,
                                        "synthesized"))
               /\ template_review' = template_review \cup {Len(templates) + 1}
               /\ parsing' = parsing
          ELSE /\ templates' = Append(templates,
                     SecureHTMLTemplate(EmptyConfig, EmptyConfig,
                                        "regex_fallback"))
               /\ template_review' = template_review
               /\ parsing' = [parsing EXCEPT !.config = EmptyConfig]
    /\ template_in_use' = Len(templates) + 1
    /\ phase' = "html_extract"
    /\ UNCHANGED <<inbox_vars, classification, strategy, ran, result,
                   validations, final_result, outcome_vars, deleted>>
    /\ UNCHANGED outside_pipeline

\* Tier2SecureHybridStrategy.extract, steps 2 and 3: the HTML extraction is
\* returned when its confidence is above 0.8 (a failed parse has confidence
\* 0); otherwise the regex result of a similar template is combined with it.
Tier2Extract ==
    /\ phase = "html_extract"
    /\ \E html_confidence \in ConfLevels :
          IF html_confidence > HtmlConfidenceThreshold
          THEN result' = [NoResult EXCEPT !.tier = 2,
                                          !.confidence = html_confidence,
                                          !.template_used = template_in_use]
          ELSE \E fuzzy_template \in TemplateIds \cup {0},
                  combined \in ConfLevels :
                  result' = [NoResult EXCEPT !.tier = 2,
                                             !.confidence = combined,
                                             !.template_used = fuzzy_template]
    /\ phase' = AfterExtract(result')
    /\ UNCHANGED <<inbox_vars, classification, strategy, ran, parsing,
                   template_in_use, validations, final_result, store_vars,
                   outcome_vars>>
    /\ UNCHANGED outside_pipeline

\* ---------------------------------------------------------- Tiers 3 and 4
Tier3Extract ==
    /\ phase = "extract"
    /\ strategy = 3
    /\ ran' = Append(ran, 3)
    /\ \E confidence \in ConfLevels :
          result' = [NoResult EXCEPT !.tier = 3,
                                     !.confidence = confidence,
                                     !.cost = Tier3Cost]
    /\ phase' = AfterExtract(result')
    /\ UNCHANGED <<inbox_vars, classification, strategy, parsing,
                   template_in_use, validations, final_result, store_vars,
                   outcome_vars>>
    /\ UNCHANGED outside_pipeline

Tier4Extract ==
    /\ phase = "extract"
    /\ strategy = 4
    /\ ran' = Append(ran, 4)
    /\ \E confidence \in ConfLevels :
          result' = [NoResult EXCEPT !.tier = 4,
                                     !.confidence = confidence,
                                     !.cost = Tier4Cost,
                                     !.queue_for_template_generation = TRUE]
    /\ phase' = AfterExtract(result')
    /\ UNCHANGED <<inbox_vars, classification, strategy, parsing,
                   template_in_use, validations, final_result, store_vars,
                   outcome_vars>>
    /\ UNCHANGED outside_pipeline

\* The inference call of Tier 3 (llm_analyze_structure) or of Tier 4
\* (structured_extract) fails; neither extract nor process_email has a
\* handler.
InferenceCallFails ==
    /\ phase = "extract"
    /\ strategy \in {3, 4}
    /\ ran' = Append(ran, strategy)
    /\ phase' = "raised"
    /\ UNCHANGED <<inbox_vars, classification, strategy, parsing,
                   template_in_use, result, validations, final_result,
                   store_vars, outcome_vars>>
    /\ UNCHANGED outside_pipeline

\* ------------------------------------------------- validate_and_learn
Min(S) == CHOOSE x \in S : \A y \in S : x <= y

Max(S) == CHOOSE x \in S : \A y \in S : x >= y

Range(f) == {f[i] : i \in DOMAIN f}

consolidate_max(vs) == Max(Range(vs))

consolidate_validations(vs) == Min(Range(vs))

needs_review_inverted(confidence) == confidence > ReviewThreshold

needs_human_review(confidence) == confidence < ReviewThreshold

should_reinforce(confidence) == confidence > ReinforceThreshold

reinforce_recompute(tpl) ==
    [tpl EXCEPT !.success_count = @ + 1,
                !.security_validated = tpl.success_count + 1 >= PromotionThreshold]

\* A reinforcement that counts twice.
reinforce_twice(tpl) ==
    [tpl EXCEPT !.success_count = @ + 2,
                !.security_validated =
                    @ \/ tpl.success_count + 2 >= PromotionThreshold]

reinforce_template(tpl) ==
    [tpl EXCEPT !.success_count = @ + 1,
                !.security_validated =
                    @ \/ tpl.success_count + 1 >= PromotionThreshold]

\* A validation leaves the confidence of a result as it is or demotes it.
\* The business rules and the duplicate check pass or fail; the outlier check
\* lowers the confidence by degrees.
PassOrFail(res) == {0, res.confidence}

ValidationOutcomes(res) == {c \in ConfLevels : c <= res.confidence}

\* The cross-validation: a reference that collides with a recorded
\* transaction fails the check.
validate_against_similar(res) ==
    IF \E tx \in ledger : tx.email = email_id THEN {0} ELSE PassOrFail(res)

validate_and_learn ==
    /\ phase = "validate"
    /\ \E auto \in PassOrFail(result),
          statistical \in ValidationOutcomes(result),
          similarity \in validate_against_similar(result) :
          LET vs == <<auto, statistical, similarity>>
              final == consolidate_validations(vs)
              review == needs_human_review(final)
              used == result.template_used
          IN  /\ validations' = vs
              /\ final_result' = [result EXCEPT !.confidence = final,
                                                !.needs_review = review]
              /\ review_queue' = IF review THEN review_queue \cup {messages}
                                 ELSE review_queue
              /\ templates' =
                    IF should_reinforce(final) /\ used \in TemplateIds
                    THEN [templates EXCEPT ![used] = reinforce_template(@)]
                    ELSE templates
    /\ phase' = "done"
    /\ UNCHANGED <<inbox_vars, classification, strategy, ran, parsing,
                   template_in_use, result, template_review, ledger, deleted>>
    /\ UNCHANGED outside_pipeline

\* ------------------------------------------------ human security review
\* A reviewer approves a template that generate_secure_template queued.
HumanApprove ==
    /\ \E t \in template_review \cap TemplateIds :
          /\ templates' = [templates EXCEPT ![t].human_reviewed = TRUE,
                                            ![t].security_validated = TRUE]
          /\ template_review' = template_review \ {t}
    /\ UNCHANGED <<phase, inbox_vars, attempt_vars, outcome_vars, deleted>>
    /\ UNCHANGED outside_pipeline

\* ------------------------------------------- FinancialEmailProcessor
\* process_financial_email on the extracted data: phases 2 to 7 create the
\* transaction record and update the balances; the need for review is only
\* reported in the returned requires_user_attention.
process_financial_email ==
    /\ phase = "done"
    /\ \A tx \in ledger : tx.attempt # messages
    /\ ledger' = ledger \cup
          {[attempt |-> messages, email |-> email_id,
            requires_user_attention |-> final_result.needs_review]}
    /\ UNCHANGED <<phase, inbox_vars, attempt_vars, store_vars, review_queue>>
    /\ UNCHANGED outside_pipeline

\* --------------------------------------------------- /api/templates/
\* DELETE /templates/{id}/
DeleteTemplate ==
    /\ Cardinality(deleted) < MaxDeletes
    /\ \E t \in TemplateIds : deleted' = deleted \cup {t}
    /\ UNCHANGED <<phase, inbox_vars, attempt_vars, templates, template_review,
                   outcome_vars>>
    /\ UNCHANGED outside_pipeline

Next ==
    \/ ReceiveEmail
    \/ classify_email
    \/ SelectStrategy
    \/ Tier1Extract
    \/ find_or_create_template
    \/ structured_json_response
    \/ ChatCompletionFails
    \/ generate_secure_template
    \/ Tier2Extract
    \/ Tier3Extract
    \/ Tier4Extract
    \/ InferenceCallFails
    \/ validate_and_learn
    \/ HumanApprove

Spec == Init /\ [][Next]_vars

\* The worker together with what surrounds it: repeated delivery by the
\* polling, the financial pipeline that consumes the results, and the
\* template API.
NextSystem ==
    \/ Next
    \/ RedeliverEmail
    \/ process_financial_email
    \/ DeleteTemplate

SpecSystem == Init /\ [][NextSystem]_vars

\* ============================================ AutoCategorizationEngine
\* The corrections of the category of one merchant's transactions.
Users == 1..MaxUsers

Categories == {"comida_supermercado", "comida_restaurantes"}

\* UserCategoryCorrection.objects.filter(...).count()
CorrectionsCount(rows, category) ==
    Cardinality({i \in DOMAIN rows : rows[i].corrected_category = category})

learn_from_correction(user_id, category) ==
    /\ Len(corrections) < MaxCorrections
    /\ corrections' = Append(corrections,
          [user_id |-> user_id, corrected_category |-> category])
    /\ merchant_patterns' =
          IF CorrectionsCount(corrections', category) >= ConsensusThreshold
          THEN category
          ELSE merchant_patterns
    /\ UNCHANGED <<pipeline_vars, frontend_vars, counter_vars>>

\* categorize_transaction: the global pattern first, then the oldest
\* correction of the user, then the default.
categorize_transaction(user_id) ==
    IF merchant_patterns # "none" THEN merchant_patterns
    ELSE LET own == SelectSeq(corrections, LAMBDA row : row.user_id = user_id)
         IN  IF own # <<>> THEN own[1].corrected_category ELSE "otros"

LearningNext ==
    \E user_id \in Users, category \in Categories :
        learn_from_correction(user_id, category)

SpecLearning == Init /\ [][LearningNext]_vars

\* ================================================= frontend: useAuth.ts
\* The status of a response: OK, token expired, any other failure.
Statuses == {200, 401, 500}

token_not_ok(status) == status # 200

\* if (response.status === 401)
token_expired(status) == status = 401

\* throw new Error(message)
Throw(call, message) == [call EXCEPT !.pc = "threw", !.error = message]

\* makeAuthenticatedRequest up to its first fetch: without a stored access
\* token it throws, else the request carries the token.
StartCall ==
    IF storage.access = 0
    THEN Throw(NoCall, "No access token available")
    ELSE [NoCall EXCEPT !.pc = "fetch", !.sent = storage.access,
                        !.requests = 1]

makeAuthenticatedRequest(c) ==
    /\ calls[c].pc = "idle"
    /\ calls' = [calls EXCEPT ![c] = StartCall]
    /\ UNCHANGED <<storage, issued, valid_refresh, build, route, outside_auth>>

\* The first response arrives.  On 401 refreshTokens is called and runs up
\* to its fetch: without a stored refresh token it returns false.
FirstResponse(c) ==
    /\ calls[c].pc = "fetch"
    /\ \E status \in Statuses :
          calls' = [calls EXCEPT ![c] =
             IF token_expired(status)
             THEN IF storage.refresh = 0
                  THEN Throw([@ EXCEPT !.first = status, !.refreshes = @ + 1,
                                       !.refresh_ok = "no"],
                             "Authentication expired")
                  ELSE [@ EXCEPT !.first = status, !.refreshes = @ + 1,
                                 !.refresh_sent = storage.refresh,
                                 !.pc = "refresh"]
             ELSE [@ EXCEPT !.first = status, !.response = status,
                            !.pc = "returned"]]
    /\ UNCHANGED <<storage, issued, valid_refresh, build, route, outside_auth>>

\* A fetch of makeAuthenticatedRequest is rejected (no connection): the
\* rejection leaves makeAuthenticatedRequest as it is.
RequestFails(c) ==
    /\ calls[c].pc \in {"fetch", "retry"}
    /\ calls' = [calls EXCEPT ![c] = Throw(@, "Failed to fetch")]
    /\ UNCHANGED <<storage, issued, valid_refresh, build, route, outside_auth>>

\* refreshTokens returns false: makeAuthenticatedRequest throws; the
\* refresh of the interval has no request to go back to.
RefreshedFalse(c, call) ==
    IF c = IntervalCall
    THEN [call EXCEPT !.refresh_ok = "no", !.pc = "returned"]
    ELSE Throw([call EXCEPT !.refresh_ok = "no"], "Authentication expired")

\* refreshTokens returns true: makeAuthenticatedRequest reads the stored
\* access token and issues the request again.
RefreshedTrue(c, call, access) ==
    IF c = IntervalCall
    THEN [call EXCEPT !.refresh_ok = "yes", !.pc = "returned"]
    ELSE [call EXCEPT !.refresh_ok = "yes", !.pc = "retry",
                      !.retry = access, !.requests = @ + 1]

\* if (user) of refreshTokens, dropped.
any_user(stored) == TRUE

\* if (user) of refreshTokens.
stored_user(stored) == stored.user

\* refreshTokens: the response of /api/auth/refresh/ arrives.  The server
\* rotates (ROTATE_REFRESH_TOKENS): it accepts a refresh token once and
\* answers with a new pair; any other answer is not OK.
RefreshResponse(c) ==
    /\ calls[c].pc = "refresh"
    /\ \/ /\ calls[c].refresh_sent \in valid_refresh
          /\ issued < MaxTokens
          /\ issued' = issued + 1
          /\ valid_refresh' =
                (valid_refresh \ {calls[c].refresh_sent}) \cup {issued + 1}
          /\ calls' = [calls EXCEPT ![c].pc = "refresh_json",
                                    ![c].data = issued + 1]
       \/ /\ issued' = issued
          /\ valid_refresh' = valid_refresh
          /\ calls' = [calls EXCEPT ![c] =
                RefreshedFalse(c, [@ EXCEPT !.consumed =
                    calls[c].refresh_sent \notin valid_refresh])]
    /\ UNCHANGED <<storage, build, route, outside_auth>>

\* refreshTokens: the fetch or response.json() throws, the catch returns
\* false.
RefreshFails(c) ==
    /\ calls[c].pc \in {"refresh", "refresh_json"}
    /\ calls' = [calls EXCEPT ![c] = RefreshedFalse(c, @)]
    /\ UNCHANGED <<storage, issued, valid_refresh, build, route, outside_auth>>

\* refreshTokens: with a stored user the new pair is stored and true is
\* returned; makeAuthenticatedRequest then reads the stored access token and
\* issues the request again.
RefreshStore(c) ==
    /\ calls[c].pc = "refresh_json"
    /\ IF stored_user(storage)
       THEN /\ storage' = storeTokens(calls[c].data, calls[c].data,
                                       storage.user)
            /\ calls' = [calls EXCEPT ![c] =
                  RefreshedTrue(c, @, storage'.access)]
       ELSE /\ storage' = storage
            /\ calls' = [calls EXCEPT ![c] = RefreshedFalse(c, @)]
    /\ UNCHANGED <<issued, valid_refresh, build, route, outside_auth>>

\* The response of the second request is returned as it is.
RetryResponse(c) ==
    /\ calls[c].pc = "retry"
    /\ \E status \in Statuses :
          calls' = [calls EXCEPT ![c].second = status,
                                 ![c].response = status,
                                 ![c].pc = "returned"]
    /\ UNCHANGED <<storage, issued, valid_refresh, build, route, outside_auth>>

\* ------------------------------------------------------- ProtectedRoute
\* What the component returns.  The placeholder of frontend/src/components
\* has isAuthenticated = false; the guard renders by its authState.
RenderWithoutWaiting(b, r) ==
    IF r.pc = "unmounted" THEN "nothing"
    ELSE IF b = "placeholder" THEN "navigate_login"
    ELSE IF r.authState = "unauthenticated" THEN "navigate_login"
    ELSE "outlet"

ProtectedRoute(b, r) ==
    IF r.pc = "unmounted" THEN "nothing"
    ELSE IF b = "placeholder" THEN "navigate_login"
    ELSE IF r.authState = "loading" THEN "loading_screen"
    ELSE IF r.authState = "unauthenticated" THEN "navigate_login"
    ELSE "outlet"

\* The first render, with authState 'loading'.
MountProtectedRoute ==
    /\ route.pc = "unmounted"
    /\ route' = [route EXCEPT !.pc = IF build = "guard" THEN "mounted"
                                     ELSE "settled"]
    /\ UNCHANGED <<storage, issued, valid_refresh, calls, build, outside_auth>>

\* The effect: checkAuthentication up to its fetch.
checkAuthentication ==
    /\ route.pc = "mounted"
    /\ route' = IF storage.access = 0 \/ ~storage.user
                THEN [route EXCEPT !.pc = "settled",
                                   !.authState = "unauthenticated"]
                ELSE [route EXCEPT !.pc = "fetching",
                                   !.token = storage.access]
    /\ UNCHANGED <<storage, issued, valid_refresh, calls, build, outside_auth>>

\* The response of /api/users/me/: OK, or not OK, which removes the access
\* token and the user from localStorage.
CheckResponse ==
    /\ route.pc = "fetching"
    /\ \/ /\ route' = [route EXCEPT !.pc = "settled", !.verified = TRUE,
                                    !.authState = "authenticated"]
          /\ storage' = storage
       \/ /\ route' = [route EXCEPT !.pc = "settled",
                                    !.authState = "unauthenticated"]
          /\ storage' = [storage EXCEPT !.access = 0, !.user = FALSE]
    /\ UNCHANGED <<issued, valid_refresh, calls, build, outside_auth>>

\* The fetch is rejected: the catch sets 'unauthenticated'.
CheckFails ==
    /\ route.pc = "fetching"
    /\ route' = [route EXCEPT !.pc = "settled",
                              !.authState = "unauthenticated"]
    /\ UNCHANGED <<storage, issued, valid_refresh, calls, build, outside_auth>>

\* The browser opens the application with what an earlier login left in
\* localStorage.
AuthInit ==
    /\ storage \in {NoTokens, CallbackStored, LoginPageStored}
    /\ issued = 1
    /\ valid_refresh = {1}
    /\ calls = [c \in CallSlots |-> NoCall]
    /\ build \in {"placeholder", "guard"}
    /\ route = Unmounted

InitAuth ==
    /\ PipelineInit
    /\ LearningInit
    /\ AuthInit
    /\ HookIdle
    /\ LoaderIdle
    /\ CountersIdle

NextAuth ==
    \/ \E c \in Callers :
          \/ makeAuthenticatedRequest(c)
          \/ FirstResponse(c)
          \/ RequestFails(c)
          \/ RefreshResponse(c)
          \/ RefreshFails(c)
          \/ RefreshStore(c)
          \/ RetryResponse(c)
    \/ MountProtectedRoute
    \/ checkAuthentication
    \/ CheckResponse
    \/ CheckFails

SpecAuth == InitAuth /\ [][NextAuth]_vars

\* ================================= the Template Store under parallel workers
\* What the workers' counter updates do not touch.
outside_counters ==
    <<phase, inbox_vars, attempt_vars, template_review, deleted, outcome_vars,
      learning_vars, frontend_vars>>

\* A template is stored, unproven, as generate_secure_template stores it.
create_template_from_parser ==
    /\ Len(templates) < MaxTemplates
    /\ \E proposal \in {c \in ProposedConfigs : validate_css_selectors(c)} :
          templates' = Append(templates,
             SecureHTMLTemplate(sanitize_css_selectors(proposal), proposal,
                                "generated"))
    /\ UNCHANGED <<workers, reinforcements, finalized, outside_counters>>

\* The ExtractionResult of a worker whose e-mail the template has parsed.
TemplateResult(t) ==
    [NoResult EXCEPT !.tier = 2, !.confidence = Tier1Confidence,
                     !.template_used = t]

\* A worker's validate_and_learn reads the row of the template it is about
\* to reinforce.
ReadTemplate(w) ==
    /\ workers[w].pc = "idle"
    /\ reinforcements
          + Cardinality({v \in WorkerIds : workers[v].pc = "read"})
          < MaxReinforcements
    /\ \E t \in 1..Len(templates) :
          /\ should_reinforce(TemplateResult(t).confidence)
          /\ workers' = [workers EXCEPT ![w] =
                [pc |-> "read", template |-> t, row |-> templates[t]]]
    /\ UNCHANGED <<templates, reinforcements, finalized, outside_counters>>

\* The worker writes the fields its reinforcement has changed, over
\* whatever another worker has written since the read, and returns its
\* result.
WriteCounters(w) ==
    /\ workers[w].pc = "read"
    /\ LET t == workers[w].template
           reinforced == reinforce_template(workers[w].row)
       IN  /\ templates' = [templates EXCEPT
                 ![t].success_count = reinforced.success_count,
                 ![t].security_validated =
                     IF reinforced.security_validated
                        # workers[w].row.security_validated
                     THEN reinforced.security_validated
                     ELSE @]
           /\ finalized' = Append(finalized, TemplateResult(t))
    /\ reinforcements' = reinforcements + 1
    /\ workers' = [workers EXCEPT ![w] = IdleWorker]
    /\ UNCHANGED outside_counters

NextCounters ==
    \/ create_template_from_parser
    \/ \E w \in WorkerIds :
          \/ ReadTemplate(w)
          \/ WriteCounters(w)

SpecCounters == Init /\ [][NextCounters]_vars

\* ============================================ frontend: the useAuth hook
\* setAuthState(prev => ({ ...prev, isLoading: true, error: null })), with
\* isAuthenticated set as well.
LoadingSignedIn(prev) ==
    [prev EXCEPT !.isLoading = TRUE, !.error = "none",
                 !.isAuthenticated = TRUE]

\* setAuthState(prev => ({ ...prev, isLoading: true, error: null }))
Loading(prev) == [prev EXCEPT !.isLoading = TRUE, !.error = "none"]

\* checkAuth up to its await: without an access token or a user in
\* localStorage nobody is signed in, else /api/users/me/ is asked.
checkAuth ==
    /\ check.pc = "idle"
    /\ IF storage.access = 0 \/ ~storage.user
       THEN /\ authState' = SignedOut("none")
            /\ check' = [pc |-> "done", overtaken |-> FALSE]
            /\ calls' = calls
       ELSE /\ authState' = Loading(authState)
            /\ check' = [pc |-> "waiting", overtaken |-> FALSE]
            /\ calls' = [calls EXCEPT ![CheckAuthCall] = StartCall]
    /\ UNCHANGED <<storage, issued, valid_refresh, location, signout,
                   callback, outside_hook>>

\* checkAuth after its await: an OK answer signs the user in; an answer
\* that is not OK, a body that cannot be read and a thrown error clear
\* the storage.
checkAuthSettles ==
    /\ check.pc = "waiting"
    /\ LET call == calls[CheckAuthCall]
       IN  \/ /\ call.pc = "returned"
              /\ call.response = 200
              /\ \/ /\ authState' = SignedIn
                    /\ storage' = storage
                 \/ /\ authState' = SignedOut("Authentication failed")
                    /\ storage' = clearAuth
           \/ /\ call.pc = "returned"
              /\ call.response # 200
              /\ authState' = SignedOut("Session expired")
              /\ storage' = clearAuth
           \/ /\ call.pc = "threw"
              /\ authState' = SignedOut(call.error)
              /\ storage' = clearAuth
    /\ check' = [check EXCEPT !.pc = "done"]
    /\ UNCHANGED <<issued, valid_refresh, calls, location, signout, callback,
                   outside_hook>>

\* loginWithTokens: storeTokens, then the user is signed in.
loginWithTokens(access, refresh) ==
    [storage |-> storeTokens(access, refresh, TRUE), authState |-> SignedIn]

\* What a logout leaves when the backend logout has thrown: nothing done.
LoggedOutUnlessFailed ==
    IF calls[LogoutCall].pc = "threw"
    THEN [storage |-> storage, authState |-> authState,
          location |-> location]
    ELSE [storage |-> clearAuth, authState |-> SignedOut("none"),
          location |-> "/login"]

\* The end of logout, in the try and in the catch alike: clearAuth, the
\* cleared authState, navigate('/login').
LoggedOut ==
    [storage |-> clearAuth, authState |-> SignedOut("none"),
     location |-> "/login"]

\* logout up to its await: with a refresh token stored the backend logout
\* is called, else the end follows at once.
logout ==
    /\ signout.pc = "idle"
    /\ IF storage.refresh # 0
       THEN /\ calls' = [calls EXCEPT ![LogoutCall] = StartCall]
            /\ signout' = [pc |-> "waiting"]
            /\ UNCHANGED <<storage, authState, location>>
       ELSE /\ calls' = calls
            /\ signout' = [pc |-> "done"]
            /\ storage' = LoggedOut.storage
            /\ authState' = LoggedOut.authState
            /\ location' = LoggedOut.location
    /\ UNCHANGED <<issued, valid_refresh, check, callback, outside_hook>>

\* logout after its await, whatever the backend logout did.
logoutSettles ==
    /\ signout.pc = "waiting"
    /\ calls[LogoutCall].pc \in {"returned", "threw"}
    /\ signout' = [pc |-> "done"]
    /\ storage' = LoggedOut.storage
    /\ authState' = LoggedOut.authState
    /\ location' = LoggedOut.location
    /\ UNCHANGED <<issued, valid_refresh, calls, check, callback, outside_hook>>

\* The interval of the signed-in user fires: refreshTokens up to its fetch.
AutoRefresh ==
    /\ authState.isAuthenticated
    /\ calls[IntervalCall].pc = "idle"
    /\ calls' = [calls EXCEPT ![IntervalCall] =
          IF storage.refresh = 0
          THEN [NoCall EXCEPT !.refreshes = 1, !.refresh_ok = "no",
                              !.pc = "returned"]
          ELSE [NoCall EXCEPT !.refreshes = 1, !.pc = "refresh",
                              !.refresh_sent = storage.refresh]]
    /\ UNCHANGED <<storage, issued, valid_refresh, hook_vars, outside_hook>>

\* ------------------------------------------------- the page of /auth/callback
\* AuthCallback.tsx: an error parameter or a missing access_token,
\* refresh_token, email or username is an error and leads to /login; else
\* loginWithTokens, 'success', and the dashboard after two seconds.
processAuthCallback ==
    /\ callback.page = "AuthCallback"
    /\ callback.pc = "unmounted"
    /\ \E url \in CallbackUrls :
          IF "error" \in url
             \/ ~({"access_token", "refresh_token", "email", "username"}
                      \subseteq url)
          THEN /\ callback' = [callback EXCEPT !.pc = "done", !.url = url,
                                               !.status = "error",
                                               !.timer = "/login"]
               /\ UNCHANGED <<storage, issued, valid_refresh, authState, check>>
          ELSE /\ issued < MaxTokens
               /\ issued' = issued + 1
               /\ valid_refresh' = valid_refresh \cup {issued + 1}
               /\ storage' = loginWithTokens(issued + 1, issued + 1).storage
               /\ authState' = loginWithTokens(issued + 1, issued + 1).authState
               /\ check' = [check EXCEPT !.overtaken = check.pc = "waiting"]
               /\ callback' = [callback EXCEPT !.pc = "done", !.url = url,
                                               !.status = "success",
                                               !.timer = "/app/dashboard"]
    /\ UNCHANGED <<calls, location, signout, outside_hook>>

\* AuthCallbackPage of LoginPage.tsx: an error parameter is an error; with
\* access_token, refresh_token and user_id the access token and the user
\* are written to localStorage, 'success', and the dashboard after two
\* seconds; anything else is an error.  No error leads anywhere.
handleCallback ==
    /\ callback.page = "LoginPage"
    /\ callback.pc = "unmounted"
    /\ \E url \in CallbackUrls :
          IF "error" \notin url
             /\ {"access_token", "refresh_token", "user_id"} \subseteq url
          THEN /\ issued < MaxTokens
               /\ issued' = issued + 1
               /\ valid_refresh' = valid_refresh \cup {issued + 1}
               /\ storage' = [storage EXCEPT !.access = issued + 1,
                                              !.user = TRUE]
               /\ callback' = [callback EXCEPT !.pc = "done", !.url = url,
                                               !.status = "success",
                                               !.timer = "/app/dashboard"]
          ELSE /\ callback' = [callback EXCEPT !.pc = "done", !.url = url,
                                               !.status = "error"]
               /\ UNCHANGED <<storage, issued, valid_refresh>>
    /\ UNCHANGED <<calls, authState, check, location, signout, outside_hook>>

\* The timeout of the page runs out: navigate.
CallbackNavigates ==
    /\ callback.timer # "none"
    /\ location' = callback.timer
    /\ callback' = [callback EXCEPT !.timer = "none"]
    /\ UNCHANGED <<storage, issued, valid_refresh, calls, authState, check,
                   signout, outside_hook>>

\* The browser opens /auth/callback, built from either source, with what
\* an earlier session left in localStorage.
InitHook ==
    /\ PipelineInit
    /\ LearningInit
    /\ AuthInit
    /\ authState = InitialAuthState
    /\ location = "/auth/callback"
    /\ check = [pc |-> "idle", overtaken |-> FALSE]
    /\ signout = [pc |-> "idle"]
    /\ callback \in {NoCallback, [NoCallback EXCEPT !.page = "LoginPage"]}
    /\ LoaderIdle
    /\ CountersIdle

HookCalls == {CheckAuthCall, LogoutCall, IntervalCall}

NextHook ==
    \/ checkAuth
    \/ checkAuthSettles
    \/ logout
    \/ logoutSettles
    \/ AutoRefresh
    \/ processAuthCallback
    \/ handleCallback
    \/ CallbackNavigates
    \/ \E c \in HookCalls :
          \/ FirstResponse(c)
          \/ RequestFails(c)
          \/ RefreshResponse(c)
          \/ RefreshFails(c)
          \/ RefreshStore(c)
          \/ RetryResponse(c)

SpecHook == InitHook /\ [][NextHook]_vars

\* ============================================ Dashboard.tsx: loadEmails
\* What the loader does not touch.
outside_loader ==
    <<pipeline_vars, learning_vars, counter_vars, hook_vars, build, route>>

\* loadEmails with an integration selected: setEmailsLoading(true), then
\* getTokenStatus asks for the token status.  The retry of the catch enters
\* here again.
loadEmails ==
    /\ loader.pc = "idle"
    /\ loader' = [pc |-> "token_status", emailsLoading |-> TRUE]
    /\ calls' = [calls EXCEPT ![LoaderCall] = StartCall]
    /\ UNCHANGED <<storage, issued, valid_refresh, outside_loader>>

\* The catch and the finally of loadEmails for what a request has thrown:
\* 'Authentication expired' starts refreshTokens of useProviderAuth, any
\* other error ends the function with setEmailsLoading(false).
LoadFailed(message) ==
    IF message = "Authentication expired"
    THEN /\ loader' = [loader EXCEPT !.pc = "provider_refresh"]
         /\ calls' = [calls EXCEPT ![LoaderCall] = StartCall]
    ELSE /\ loader' = [pc |-> "done", emailsLoading |-> FALSE]
         /\ calls' = calls

\* getTokenStatus has its response: its body is read and the messages are
\* asked for, or the body cannot be read; or the request has thrown.
TokenStatusSettles ==
    /\ loader.pc = "token_status"
    /\ \/ /\ calls[LoaderCall].pc = "returned"
          /\ \/ /\ loader' = [loader EXCEPT !.pc = "messages"]
                /\ calls' = [calls EXCEPT ![LoaderCall] = StartCall]
             \/ LoadFailed("Unexpected token")
       \/ /\ calls[LoaderCall].pc = "threw"
          /\ LoadFailed(calls[LoaderCall].error)
    /\ UNCHANGED <<storage, issued, valid_refresh, outside_loader>>

\* The request for the messages has its response, whose body is read or
\* not: either way the function ends; or the request has thrown.
MessagesSettle ==
    /\ loader.pc = "messages"
    /\ \/ /\ calls[LoaderCall].pc = "returned"
          /\ loader' = [pc |-> "done", emailsLoading |-> FALSE]
          /\ calls' = calls
       \/ /\ calls[LoaderCall].pc = "threw"
          /\ LoadFailed(calls[LoaderCall].error)
    /\ UNCHANGED <<storage, issued, valid_refresh, outside_loader>>

\* refreshTokens of useProviderAuth has its response: with its body read
\* loadEmails is called again; a body that cannot be read and a thrown
\* request end the chain in the inner catch.
ProviderRefreshSettles ==
    /\ loader.pc = "provider_refresh"
    /\ \/ /\ calls[LoaderCall].pc = "returned"
          /\ \/ /\ loader' = [pc |-> "token_status", emailsLoading |-> TRUE]
                /\ calls' = [calls EXCEPT ![LoaderCall] = StartCall]
             \/ /\ loader' = [pc |-> "done", emailsLoading |-> FALSE]
                /\ calls' = calls
       \/ /\ calls[LoaderCall].pc = "threw"
          /\ loader' = [pc |-> "done", emailsLoading |-> FALSE]
          /\ calls' = calls
    /\ UNCHANGED <<storage, issued, valid_refresh, outside_loader>>

NextEmails ==
    \/ loadEmails
    \/ TokenStatusSettles
    \/ MessagesSettle
    \/ ProviderRefreshSettles
    \/ FirstResponse(LoaderCall)
    \/ RequestFails(LoaderCall)
    \/ RefreshResponse(LoaderCall)
    \/ RefreshFails(LoaderCall)
    \/ RefreshStore(LoaderCall)
    \/ RetryResponse(LoaderCall)

\* Every request is answered or rejected in the end and every
\* continuation runs.
SpecEmails == InitAuth /\ [][NextEmails]_vars /\ WF_vars(NextEmails)

\* ================================================================ claims
AttemptEnded == phase \in {"done", "raised"}

C2_NoTemplateFromMarkedProposal ==
    \A t \in TemplateIds : validate_css_selectors(templates[t].proposal)

\* C3: security_validated turns from FALSE to TRUE only in a step in which
\* the template's success_count reaches the promotion threshold or a reviewer
\* approves it; a new template starts with FALSE; a template with at most
\* one successful use and no approval has FALSE.
C3_PromotionOnlyByThresholdOrApproval ==
    /\ [][\A t \in TemplateIds :
            (~templates[t].security_validated /\ templates'[t].security_validated)
            => \/ /\ templates'[t].success_count >= PromotionThreshold
                  /\ templates'[t].success_count > templates[t].success_count
               \/ ~templates[t].human_reviewed /\ templates'[t].human_reviewed]_vars
    /\ [][\A t \in 1..Len(templates') :
            t > Len(templates) => ~templates'[t].security_validated]_vars
    /\ [](\A t \in TemplateIds :
            (templates[t].success_count <= 1 /\ ~templates[t].human_reviewed)
            => ~templates[t].security_validated)

\* A template was promoted by its success count alone, and another state
\* holds a template used once and not promoted.
C3_Witness ==
    \E t \in TemplateIds :
        /\ templates[t].security_validated
        /\ ~templates[t].human_reviewed
        /\ templates[t].success_count = PromotionThreshold

C7_RejectedProposalDiscarded ==
    ~validate_css_selectors(parsing.proposal) =>
        /\ parsing.config = EmptyConfig
        /\ phase \notin {"validate_parser", "html_extract"}

C9_FinalIsMinimum ==
    phase = "done" =>
        /\ \A i \in 1..3 : final_result.confidence <= validations[i]
        /\ \E i \in 1..3 : final_result.confidence = validations[i]

\* One check alone failed and demoted the result.
C9_Witness ==
    /\ phase = "done"
    /\ validations[1] > ReinforceThreshold
    /\ validations[2] > ReinforceThreshold
    /\ validations[3] < ReviewThreshold
    /\ final_result.needs_review

\* C10: an attempt that has ended has left a finalized result or a review
\* item for its e-mail.
C10_EveryMessageHasOutcome ==
    AttemptEnded => (final_result.tier # 0 \/ messages \in review_queue)

\* C12: a Tier 1 result carries the confidence configured in the template
\* it was extracted with.
C12_Tier1ConfidenceIsTemplateValue ==
    (result.tier = 1 /\ result.template_used \in 1..Len(templates)) =>
        result.confidence = templates[result.template_used].confidence_score

\* C13: a failed or timed-out inference call of Tier 3 or Tier 4 does not
\* end the attempt without a result; the engine goes on with a
\* lower-confidence result.
C13_FailedInferenceDegrades ==
    phase = "raised" => strategy \notin {3, 4}

\* C16: classification always hands the e-mail on to the strategy selection,
\* and an e-mail whose sender is unknown and whose transaction likelihood is
\* low is routed to Tier 4 and extracted there, not dropped.
C16_UnknownRoutedToTier4 ==
    /\ [][phase = "classify" => phase' \in {"classify", "select"}]_vars
    /\ []((/\ phase \notin {"idle", "classify", "select"}
           /\ ~classification.bank_known
           /\ ~classification.transaction_likely) => strategy = 4)
    /\ []((/\ phase \in {"validate", "done"}
           /\ ~classification.bank_known
           /\ ~classification.transaction_likely) => result.tier = 4)

\* An e-mail with no identifying signal was extracted at Tier 4.
C16_Witness ==
    /\ phase = "done"
    /\ ~classification.bank_known
    /\ ~classification.transaction_likely
    /\ final_result.tier = 4
    /\ final_result.queue_for_template_generation

\* C18: finalizing a result increments the success_count of the template
\* that produced it exactly when the final confidence is 0.9 or more.
C18_ReinforcedAtNinetyOrMore ==
    [][(phase = "validate" /\ phase' = "done") =>
          \A t \in TemplateIds :
              templates'[t].success_count =
                  IF result.template_used = t
                        /\ final_result'.confidence >= ReinforceThreshold
                  THEN templates[t].success_count + 1
                  ELSE templates[t].success_count]_vars

\* C11: the ledger accepts at most one transaction for an e-mail, however
\* often the e-mail is processed.
C11_AtMostOneAccepted ==
    \A a \in ledger : \A b \in ledger : a.email = b.email => a = b

\* C15: a transaction is recorded only for a result that validation has
\* finalized, and never for a result that is pending review.
C15_ReviewPendingNotPosted ==
    \A tx \in ledger :
        /\ tx.attempt <= messages
        /\ ~tx.requires_user_attention

\* C17: no step removes a template from the store.
C17_TemplatesNeverRemoved ==
    [][TemplateIds \subseteq (1..Len(templates')) \ deleted']_vars

\* C14: the shared pattern of the merchant is set by corrections only when
\* at least the consensus threshold of different users agree on its
\* category; a user who submitted no correction sees the default category
\* until then.
C14_SharedChangeNeedsIndependentConsensus ==
    LET agreeing(category) ==
            {u \in Users : \E i \in DOMAIN corrections :
                /\ corrections[i].user_id = u
                /\ corrections[i].corrected_category = category}
    IN  /\ merchant_patterns # "none" =>
              Cardinality(agreeing(merchant_patterns)) >= ConsensusThreshold
        /\ \A u \in Users :
              (/\ \A i \in DOMAIN corrections : corrections[i].user_id # u
               /\ \A category \in Categories :
                     Cardinality(agreeing(category)) < ConsensusThreshold)
              => categorize_transaction(u) = "otros"

\* C19 as stated: unless the check of the stored token has succeeded, the
\* mounted ProtectedRoute renders the redirect to /login.
C19_RedirectUnlessVerified ==
    (route.pc # "unmounted" /\ ~route.verified) =>
        ProtectedRoute(build, route) = "navigate_login"

\* C19 amended: the Outlet is rendered only after the check has succeeded
\* for the access token read from storage; while the check is pending the
\* loading screen is rendered, neither the Outlet nor a redirect; with a
\* missing token or user or a failed check the redirect to /login is
\* rendered; the placeholder always renders the redirect.
C19_OutletOnlyAfterVerified ==
    LET rendered == ProtectedRoute(build, route)
    IN  /\ rendered = "outlet" =>
              /\ build = "guard"
              /\ route.verified
              /\ route.token # 0
        /\ (build = "guard" /\ route.pc \in {"mounted", "fetching"}) =>
              rendered = "loading_screen"
        /\ (route.pc = "settled" /\ ~route.verified) =>
              rendered = "navigate_login"
        /\ (route.pc = "settled" /\ route.verified) => rendered = "outlet"

\* The guard has verified the token and renders the Outlet.
C19_Witness ==
    /\ build = "guard"
    /\ route.verified
    /\ ProtectedRoute(build, route) = "outlet"

\* C20: a call refreshes exactly when its first response is 401 and at most
\* once; after a successful refresh it issues the request once more with
\* the access token just stored and returns that response whatever its
\* status; after a failed refresh it throws 'Authentication expired'; a
\* first response other than 401 is returned with no refresh.
C20_RefreshAndRetryOnce ==
    \A c \in Callers :
        LET k == calls[c]
        IN  /\ k.refreshes <= 1
            /\ k.requests <= 2
            /\ k.refreshes = 1 <=> k.first = 401
            /\ k.requests = 2 <=> k.refresh_ok = "yes"
            /\ k.refresh_ok # "none" => k.first = 401
            /\ k.requests = 2 =>
                  /\ k.retry = k.data
                  /\ k.retry # 0
            /\ k.pc = "returned" =>
                  k.response = IF k.requests = 2 THEN k.second ELSE k.first
            /\ (k.pc = "returned" /\ k.requests = 1) => k.first \in {200, 500}
            /\ k.refresh_ok = "no" =>
                  /\ k.pc = "threw"
                  /\ k.error = "Authentication expired"
                  /\ k.requests = 1
            /\ k.error = "Authentication expired" => k.refresh_ok = "no"

\* A call was answered 401, refreshed, asked again and returned the second
\* 401.
C20_Witness ==
    \E c \in Callers :
        /\ calls[c].pc = "returned"
        /\ calls[c].first = 401
        /\ calls[c].requests = 2
        /\ calls[c].response = 401

\* C21: when the check of the stored token against /api/users/me/ fails,
\* by a response that is not OK or by a request that fails, the access
\* token, the refresh token and the user are all removed from localStorage.
C21_FailedCheckClearsAll ==
    [][(route.pc = "fetching" /\ route'.pc = "settled" /\ ~route'.verified)
          => storage' = NoTokens]_vars

\* C24: of several calls in flight that were each answered 401, none throws
\* 'Authentication expired' because another call has consumed the stored
\* refresh token.
C24_NoCallLosesTheRefresh ==
    \A c \in Callers :
        ~(calls[c].error = "Authentication expired" /\ calls[c].consumed)

\* C27: refreshTokens returns true only with a new pair stored and the
\* stored user as it was; when it returns false the storage is as it was.
C27_RefreshStoresOrLeaves ==
    [][\A c \in CallSlots :
          /\ (calls[c].refresh_ok = "none" /\ calls'[c].refresh_ok = "yes") =>
                /\ calls[c].data # 0
                /\ storage.user
                /\ storage' = [access |-> calls[c].data,
                               refresh |-> calls[c].data,
                               user |-> storage.user]
          /\ (calls[c].refresh_ok = "none" /\ calls'[c].refresh_ok = "no") =>
                storage' = storage]_vars

\* One call's refresh has stored its pair beside the user, another call's
\* refresh has returned false.
C27_Witness ==
    \E c, d \in Callers :
        /\ calls[c].refresh_ok = "yes"
        /\ calls[d].refresh_ok = "no"
        /\ storage.access = calls[c].data
        /\ storage.refresh = calls[c].data
        /\ storage.user

\* C23: every logout ends with the tokens and the user removed from
\* localStorage, authState {user: null, isAuthenticated: false, isLoading:
\* false, error: null} and the router at /login, whether the backend logout
\* returned, was answered with an error or threw.
C23_LogoutAlwaysClears ==
    [][(signout.pc # "done" /\ signout'.pc = "done") =>
          /\ storage' = NoTokens
          /\ authState' = [user |-> FALSE, isAuthenticated |-> FALSE,
                           isLoading |-> FALSE, error |-> "none"]
          /\ location' = "/login"]_vars

\* A logout whose backend call threw has ended at /login with the storage
\* empty.
C23_Witness ==
    /\ signout.pc = "done"
    /\ calls[LogoutCall].pc = "threw"
    /\ storage = NoTokens
    /\ location = "/login"

\* C25: a checkAuth that started before a loginWithTokens does not remove
\* the tokens that login stored.
C25_LoginSurvivesEarlierCheck ==
    [][(check.pc = "waiting" /\ check'.pc = "done" /\ check.overtaken)
          => storage' = storage]_vars

\* C26: once logout has cleared localStorage the tokens stay absent until
\* the next login; a refresh in flight, of the interval or after a 401,
\* stores nothing.
C26_NothingStoredAfterLogout ==
    [][(signout.pc = "done" /\ storage = NoTokens /\ storage' # NoTokens) =>
          (callback.pc = "unmounted" /\ callback'.status = "success")]_vars

\* After the logout the refresh of the interval got a new pair from the
\* server and stored nothing.
C26_Witness ==
    /\ signout.pc = "done"
    /\ storage = NoTokens
    /\ calls[IntervalCall].pc = "returned"
    /\ calls[IntervalCall].data # 0
    /\ calls[IntervalCall].refresh_ok = "no"

\* C28: authState.isAuthenticated is true exactly when authState.user is
\* not null.
C28_AuthenticatedIffUser == authState.isAuthenticated <=> authState.user

\* The login signed the user in and a checkAuth in flight keeps the user
\* while it sets isLoading.
C28_Witness ==
    /\ authState.isAuthenticated
    /\ authState.user
    /\ authState.isLoading
    /\ callback.status = "success"

\* C30: the callback page reaches 'success' only without an error parameter
\* and with access_token, refresh_token, email and username, and then the
\* access token, the refresh token and the user are in localStorage; every
\* other callback ends in 'error' with nothing stored and leads to /login.
C30_SuccessOnlyWithAllStored ==
    [][(callback.pc = "unmounted" /\ callback'.pc = "done") =>
          IF callback'.status = "success"
          THEN /\ "error" \notin callback'.url
               /\ {"access_token", "refresh_token", "email", "username"}
                     \subseteq callback'.url
               /\ storage'.access # 0
               /\ storage'.refresh # 0
               /\ storage'.user
          ELSE /\ callback'.status = "error"
               /\ storage' = storage
               /\ callback'.timer = "/login"]_vars

\* C29: every loadEmails with an integration selected ends with
\* emailsLoading false; the chain of retries after 'Authentication expired'
\* is finite.
C29_LoadEmailsTerminates == loader.emailsLoading ~> ~loader.emailsLoading

\* C22: with workers writing the counters of a template one over the
\* other, success_count never exceeds the number of reinforcement events,
\* security_validated is never set before the promotion threshold of events
\* is reached, and no returned ExtractionResult changes.
C22_LostUpdatesOnlyDelay ==
    /\ [](\A t \in 1..Len(templates) :
            templates[t].success_count <= reinforcements)
    /\ [][\A t \in 1..Len(templates) :
            (~templates[t].security_validated
             /\ templates'[t].security_validated)
            => /\ reinforcements' >= PromotionThreshold
               /\ templates'[t].success_count >= PromotionThreshold]_vars
    /\ [][/\ Len(finalized') >= Len(finalized)
          /\ \A i \in 1..Len(finalized) : finalized'[i] = finalized[i]]_vars

\* Two reinforcements have happened, one increment was lost and the
\* template is not promoted yet.
C22_Witness ==
    /\ Len(templates) = 1
    /\ reinforcements = PromotionThreshold
    /\ templates[1].success_count < reinforcements
    /\ ~templates[1].security_validated
    /\ Len(finalized) = reinforcements

====
